---- MODULE Spec2Model ----
(***************************************************************************)
(* DNSCompare (dnscompare.py): compares the answers of a primary and a     *)
(* secondary nameserver for the (domain, record type) pairs of a file.     *)
(*                                                                         *)
(* Text is modelled as a sequence of one-character strings, so that        *)
(* str.strip, str.split and str.startswith are computed as Python does.    *)
(* A rendered record value (rdata.to_text()) is an atomic string.          *)
(***************************************************************************)
EXTENDS Integers, Sequences, FiniteSets, TLC

\* ---------------------------------------------------------------- bounds
\* Longest input file, in lines, of the driver specification.
MaxLines == 2
\* Longest raw line, in characters, of the line-parser specification.
MaxLineLen == 5
\* Longest result sequence of the comparator specification.
MaxRespLen == 3

\* ------------------------------------------------------- text primitives
SPACE == " "
COMMA == ","
HASH == "#"

\* Sequences over S of length 0..n.
SeqUpTo(S, n) == UNION {[1..k -> S] : k \in 0..n}

RECURSIVE lstrip(_)
\* str.lstrip restricted to the blank character.
lstrip(s) == IF s # <<>> /\ Head(s) = SPACE THEN lstrip(Tail(s)) ELSE s

RECURSIVE rstrip(_)
\* str.rstrip restricted to the blank character.
rstrip(s) ==
    IF s # <<>> /\ s[Len(s)] = SPACE THEN rstrip(SubSeq(s, 1, Len(s) - 1)) ELSE s

\* line.strip()
strip(s) == rstrip(lstrip(s))

\* s.startswith(c) for a one-character prefix c.
startswith(s, c) == s # <<>> /\ Head(s) = c

RECURSIVE split(_, _)
\* s.split(sep) with an explicit one-character separator: every occurrence
\* of sep cuts, empty pieces are kept, and the result has at least one piece.
split(s, sep) ==
    IF \A i \in 1..Len(s) : s[i] # sep
    THEN <<s>>
    ELSE LET k == CHOOSE i \in 1..Len(s) :
                      s[i] = sep /\ \A j \in 1..(i - 1) : s[j] # sep
         IN  <<SubSeq(s, 1, k - 1)>> \o split(SubSeq(s, k + 1, Len(s)), sep)

\* ------------------------------------------------------------ input sets
\* Nameserver arguments: the -p default (IPv4), an IPv6 address, and two
\* strings ipaddress.ip_address rejects.
DefaultPrimary == "208.67.222.222"
PrimaryArgs == {DefaultPrimary, "300.1.1.1"}
SecondaryArgs == {"::1", "nameserver"}
\* The arguments ipaddress.ip_address accepts.
ValidAddresses == {DefaultPrimary, "::1"}

\* Raw lines of the input file fed to the driver.
RawLines ==
    { <<"d", " ", "A", ",", "M", "X">>,           \* d A,MX
      <<" ", "e", " ", "M", "X", " ", "A", " ">>, \* " e MX A " (strip, two spaces)
      <<"d", " ", "A", "N", "Y">>,                \* d ANY   (meta type)
      <<"d", " ", "A", ",", "Q">>,                \* d A,Q   (unknown type)
      <<"d">>,                                    \* no second field
      <<"#", " ", "c">>,                          \* comment
      <<" ", " ">> }                              \* blank

\* The files the driver is run on: up to MaxLines raw lines.
Files == SeqUpTo(RawLines, MaxLines)

\* Characters of the line-parser specification.
Alphabet == {"d", SPACE, COMMA, "A", HASH}

VARIABLES
    primary_ns,            \* -p argument
    secondary_ns,          \* -s argument
    input_file,            \* the lines of the -f file
    file_ok,               \* whether open(input_file) succeeds
    quiet_mode,            \* -q
    pc,                    \* position of the run
    exit_msg,              \* message of exit(), or the uncaught exception
    pos,                   \* next line valid_lines reads
    data,                  \* parse_data's list of parsed lines
    li, ri,                \* current line of data, current record type
    resolver_nameservers,  \* resolver.nameservers
    queries,               \* the resolver.query calls made so far
    last_outcome,          \* how the latest resolver.query call ended
    primary_response,
    secondary_response,
    result,                \* parse_data's result of compare_dns_response
    stdout                 \* the blocks print()ed so far

vars == <<primary_ns, secondary_ns, input_file, file_ok, quiet_mode, pc,
          exit_msg, pos, data, li, ri, resolver_nameservers, queries,
          last_outcome, primary_response, secondary_response, result, stdout>>

NoResult == [colour |-> "", headline |-> "", domain |-> <<>>,
             record_type |-> <<>>, sections |-> <<>>]

\* ------------------------------------------------------------- validate
valid_ip(ip) == ip \in ValidAddresses

accessible_file == file_ok

MsgPrimary == "Invalid IP for primary nameserver (-p flag)"
MsgSecondary == "Invalid IP for secondary nameserver (-s flag)"
MsgFile == "Unable to access input file (-f flag)"
MsgParse == "Something went wrong while parsing the input_file."
ValidateMsgs == {MsgPrimary, MsgSecondary, MsgFile}

\* validate without its second check.
validate_primary_only(p, s) ==
    IF ~valid_ip(p) THEN MsgPrimary
    ELSE IF ~accessible_file THEN MsgFile
    ELSE ""

\* validate's verdict: the message it exits with, or "" when it returns.
validate(p, s) ==
    IF ~valid_ip(p) THEN MsgPrimary
    ELSE IF ~valid_ip(s) THEN MsgSecondary
    ELSE IF ~accessible_file THEN MsgFile
    ELSE ""

\* main: validate, then parse_data.
Validate ==
    /\ pc = "validate"
    /\ LET v == validate(primary_ns, secondary_ns) IN
         IF v # ""
         THEN pc' = "exited" /\ exit_msg' = v
         ELSE pc' = "parse" /\ exit_msg' = exit_msg
    /\ UNCHANGED <<primary_ns, secondary_ns, input_file, file_ok, quiet_mode,
                   pos, data, li, ri, resolver_nameservers, queries,
                   last_outcome, primary_response, secondary_response,
                   result, stdout>>

\* ----------------------------------------------------------- line parser
\* valid_lines' filter on a stripped line.
retained(l) == l # <<>> /\ ~startswith(l, HASH)

\* What get_line_data yields when l[1] raises IndexError and it calls exit().
ParseFailure == [domain |-> <<>>, records |-> <<>>]

\* get_line_data that assumes an A record when the second field is missing.
get_line_data_default(line) ==
    LET l == split(line, SPACE)
    IN  [domain |-> l[1],
         records |-> IF Len(l) < 2 THEN << <<"A">> >> ELSE split(l[2], COMMA)]

\* get_line_data with line.split(' ', 1): a cut at the first blank only.
get_line_data_maxsplit(line) ==
    LET l == split(line, SPACE)
    IN  IF Len(l) < 2
        THEN ParseFailure
        ELSE [domain |-> l[1],
              records |-> split(SubSeq(line, Len(l[1]) + 2, Len(line)), COMMA)]

\* get_line_data: domain is l[0] and records is l[1].split(',') of
\* l = line.split(' ').
get_line_data(line) ==
    LET l == split(line, SPACE)
    IN  IF Len(l) < 2
        THEN ParseFailure
        ELSE [domain |-> l[1], records |-> split(l[2], COMMA)]

\* One iteration of parse_data's first loop: valid_lines strips the next
\* line and yields it when retained; get_line_data parses it or exits.
ParseLine ==
    /\ pc = "parse"
    /\ pos <= Len(input_file)
    /\ LET l == strip(input_file[pos]) IN
         IF ~retained(l)
         THEN UNCHANGED <<pc, exit_msg, data>>
         ELSE IF get_line_data(l) = ParseFailure
              THEN pc' = "exited" /\ exit_msg' = MsgParse /\ UNCHANGED data
              ELSE data' = Append(data, get_line_data(l))
                   /\ UNCHANGED <<pc, exit_msg>>
    /\ pos' = pos + 1
    /\ UNCHANGED <<primary_ns, secondary_ns, input_file, file_ok, quiet_mode,
                   li, ri, resolver_nameservers, queries, last_outcome,
                   primary_response, secondary_response, result, stdout>>

\* valid_lines is exhausted: parse_data enters its second loop, or returns
\* when no line was retained.
ParseDone ==
    /\ pc = "parse"
    /\ pos > Len(input_file)
    /\ pc' = IF data = <<>> THEN "done" ELSE "query_primary"
    /\ li' = 1 /\ ri' = 1
    /\ UNCHANGED <<primary_ns, secondary_ns, input_file, file_ok, quiet_mode,
                   exit_msg, pos, data, resolver_nameservers, queries,
                   last_outcome, primary_response, secondary_response,
                   result, stdout>>

\* ------------------------------------------------------ resolver adapter
None == "<None>"
\* The list dns_query returns for NoAnswer and NoNameservers: ['\'\''].
EmptyAnswer == <<"''">>

\* Rendered record values, in ascending ordinal order (the order sorted()
\* uses on str).
TextOrder == <<"", "''", "1.2.3.4", "10 mx.", "5.6.7.8", "A", "B">>
Rank(t) == CHOOSE i \in 1..Len(TextOrder) : TextOrder[i] = t

RECURSIVE insert(_, _)
insert(x, s) ==
    IF s = <<>> THEN <<x>>
    ELSE IF Rank(x) <= Rank(Head(s)) THEN <<x>> \o s
    ELSE <<Head(s)>> \o insert(x, Tail(s))

RECURSIVE sorted(_)
\* sorted() of a list of str.
sorted(s) == IF s = <<>> THEN <<>> ELSE insert(Head(s), sorted(Tail(s)))

\* Record-type tokens dns.rdatatype.from_text knows, and those among them
\* that are meta types.
KnownTypes == {<<"A">>, <<"M", "X">>, <<"A", "N", "Y">>}
MetaTypes == {<<"A", "N", "Y">>}

\* The answers (rdata in wire order, rendered) a nameserver may give for
\* a record type.
Answers(record_type) ==
    IF record_type = <<"A">>
    THEN { <<"1.2.3.4">>,
           <<"1.2.3.4", "5.6.7.8">>,
           <<"5.6.7.8", "1.2.3.4">> }
    ELSE { <<"10 mx.">> }

\* How resolver.query(domain, record_type) may end.  The record type is
\* looked at before anything is sent.
ResolverOutcomes(record_type) ==
    IF record_type \notin KnownTypes THEN {"UnknownRdatatype"}
    ELSE IF record_type \in MetaTypes THEN {"NoMetaqueries"}
    ELSE {"Answer", "NoAnswer", "NoNameservers", "Timeout", "NXDOMAIN"}

\* The Timeout handler's format call: replacement fields {0}..{4}, and the
\* number of positional arguments handed to str.format.
TimeoutFormatFields == 5
TimeoutFormatArgs == 4

\* dns_query that handles every resolver error by returning.
QueryFateLenient(outcome) ==
    IF outcome = "NXDOMAIN" \/ outcome = "Timeout" THEN "raise" ELSE "return"

\* How dns_query ends for an outcome of resolver.query: it returns a list,
\* calls exit(), or lets an exception escape (NXDOMAIN is not handled;
\* str.format raises IndexError when a field has no argument).
QueryFate(outcome) ==
    CASE outcome \in {"Answer", "NoAnswer", "NoNameservers"} -> "return"
      [] outcome \in {"NoMetaqueries", "UnknownRdatatype"} -> "exit"
      [] outcome = "Timeout" ->
            IF TimeoutFormatFields <= TimeoutFormatArgs THEN "return" ELSE "raise"
      [] OTHER -> "raise"

\* dns_query that answers [None] whenever there are no records.
QueryReturnNone(outcome, answer) ==
    IF outcome = "Answer" THEN sorted(answer) ELSE <<None>>

\* The list dns_query returns.
QueryReturn(outcome, answer) ==
    CASE outcome = "Answer" -> sorted(answer)
      [] outcome \in {"NoAnswer", "NoNameservers"} -> EmptyAnswer
      [] OTHER -> <<None>>

\* What ends the process in dns_query.
QueryExitMsg(outcome) ==
    CASE outcome = "NoMetaqueries" -> "You used an invalid query type."
      [] outcome = "UnknownRdatatype" -> "contains invalid DNS record type"
      [] outcome = "Timeout" -> "IndexError"
      [] OTHER -> outcome

\* resolver.nameservers.append(nameserver)
SetNameserversAppend(nameserver) == Append(resolver_nameservers, nameserver)

\* resolver.nameservers = [nameserver]
SetNameservers(nameserver) == <<nameserver>>

\* What dns_query prints before it returns.
QueryPrints(outcome, nameserver, domain, record_type) ==
    IF outcome = "Timeout"
    THEN <<[colour |-> "RED", headline |-> "Error! Timeout while querying",
            domain |-> domain, record_type |-> record_type,
            sections |-> <<<<nameserver>>>>]>>
    ELSE <<>>

\* ------------------------------------------------------------ comparator
\* `if i`: None and the empty string are dropped from a listing.
Truthy(i) == i # None /\ i # ""
\* '\n'.join(i for i in response if i), as the lines joined.
JoinLines(response) == SelectSeq(response, Truthy)
\* `None in response`
NoneIn(response) == \E i \in 1..Len(response) : response[i] = None

\* The elements of a response, multiplicities and order dropped.
Elements(response) == {response[i] : i \in 1..Len(response)}

\* compare_dns_response that compares the responses as sets.
compare_as_sets(domain, record_type, primary, secondary) ==
    IF NoneIn(primary) \/ NoneIn(secondary)
    THEN [colour |-> "YELLOW", headline |-> "Warning!",
          domain |-> domain, record_type |-> record_type,
          sections |-> <<JoinLines(primary), JoinLines(secondary)>>]
    ELSE IF Elements(primary) = Elements(secondary)
    THEN [colour |-> "GREEN", headline |-> "Success!",
          domain |-> domain, record_type |-> record_type,
          sections |-> <<JoinLines(primary)>>]
    ELSE [colour |-> "RED", headline |-> "Error!",
          domain |-> domain, record_type |-> record_type,
          sections |-> <<JoinLines(primary), JoinLines(secondary)>>]

compare_dns_response(domain, record_type, primary, secondary) ==
    IF NoneIn(primary) \/ NoneIn(secondary)
    THEN [colour |-> "YELLOW", headline |-> "Warning!",
          domain |-> domain, record_type |-> record_type,
          sections |-> <<JoinLines(primary), JoinLines(secondary)>>]
    ELSE IF primary = secondary
    THEN [colour |-> "GREEN", headline |-> "Success!",
          domain |-> domain, record_type |-> record_type,
          sections |-> <<JoinLines(primary)>>]
    ELSE [colour |-> "RED", headline |-> "Error!",
          domain |-> domain, record_type |-> record_type,
          sections |-> <<JoinLines(primary), JoinLines(secondary)>>]

\* A quiet mode that keeps only the Error blocks.
SuppressedNotRed(r, quiet) == r.colour # "RED" /\ quiet

\* result.startswith(Fore.GREEN) and quiet_mode
Suppressed(r, quiet) == r.colour = "GREEN" /\ quiet

\* ----------------------------------------------------------------- driver
domain == data[li].domain
record_type == data[li].records[ri]

\* A loop that leaves a line after its first record type.
AdvanceNextLine(l, r) ==
    IF l < Len(data) THEN <<l + 1, 1>> ELSE <<0, 0>>

\* The loop position after the pair (l, r): the next record type of the
\* line, else the first of the next line, else <<0, 0>> when data is used up.
Advance(l, r) ==
    IF r < Len(data[l].records) THEN <<l, r + 1>>
    ELSE IF l < Len(data) THEN <<l + 1, 1>>
    ELSE <<0, 0>>

\* dns_query(nameserver, domain, record_type) called from parse_data.
dns_query(role, nameserver) ==
    \E outcome \in ResolverOutcomes(record_type) :
    \E answer \in IF outcome = "Answer" THEN Answers(record_type) ELSE {<<>>} :
      /\ resolver_nameservers' = SetNameservers(nameserver)
      /\ queries' = Append(queries,
                           [role |-> role, nameserver |-> nameserver,
                            target |-> resolver_nameservers',
                            domain |-> domain, record_type |-> record_type])
      /\ last_outcome' = outcome
      /\ CASE QueryFate(outcome) = "return" ->
                /\ stdout' = stdout \o QueryPrints(outcome, nameserver,
                                                   domain, record_type)
                /\ exit_msg' = exit_msg
                /\ IF role = "primary"
                   THEN /\ primary_response' = QueryReturn(outcome, answer)
                        /\ secondary_response' = secondary_response
                        /\ pc' = "query_secondary"
                   ELSE /\ secondary_response' = QueryReturn(outcome, answer)
                        /\ primary_response' = primary_response
                        /\ pc' = "compare"
           [] QueryFate(outcome) = "exit" ->
                /\ pc' = "exited"
                /\ exit_msg' = QueryExitMsg(outcome)
                /\ UNCHANGED <<stdout, primary_response, secondary_response>>
           [] OTHER ->
                /\ pc' = "crashed"
                /\ exit_msg' = QueryExitMsg(outcome)
                /\ UNCHANGED <<stdout, primary_response, secondary_response>>
      /\ UNCHANGED <<primary_ns, secondary_ns, input_file, file_ok,
                     quiet_mode, pos, data, li, ri, result>>

\* primary_response = dns_query(primary_ns, domain, record_type)
QueryPrimary == pc = "query_primary" /\ dns_query("primary", primary_ns)

\* secondary_response = dns_query(secondary_ns, domain, record_type)
QuerySecondary == pc = "query_secondary" /\ dns_query("secondary", secondary_ns)

\* The rest of the loop body: compare, print unless a quiet Success, and
\* move to the next record type or line.
CompareAndPrint ==
    /\ pc = "compare"
    /\ result' = compare_dns_response(domain, record_type,
                                      primary_response, secondary_response)
    /\ stdout' = IF Suppressed(result', quiet_mode)
                 THEN stdout ELSE Append(stdout, result')
    /\ LET n == Advance(li, ri) IN
         IF n = <<0, 0>>
         THEN pc' = "done" /\ UNCHANGED <<li, ri>>
         ELSE pc' = "query_primary" /\ li' = n[1] /\ ri' = n[2]
    /\ UNCHANGED <<primary_ns, secondary_ns, input_file, file_ok, quiet_mode,
                   exit_msg, pos, data, resolver_nameservers, queries,
                   last_outcome, primary_response, secondary_response>>

\* --------------------------------------------------------- specifications
\* A run of the program: main(args['-p'], args['-s'], args['-f'], args['-q']).
Init ==
    /\ primary_ns \in PrimaryArgs
    /\ secondary_ns \in SecondaryArgs
    /\ input_file \in Files
    /\ file_ok \in BOOLEAN
    /\ quiet_mode \in BOOLEAN
    /\ pc = "validate"
    /\ exit_msg = ""
    /\ pos = 1
    /\ data = <<>>
    /\ li = 1 /\ ri = 1
    /\ resolver_nameservers = <<>>
    /\ queries = <<>>
    /\ last_outcome = ""
    /\ primary_response = <<>>
    /\ secondary_response = <<>>
    /\ result = NoResult
    /\ stdout = <<>>

Next ==
    \/ Validate
    \/ ParseLine
    \/ ParseDone
    \/ QueryPrimary
    \/ QuerySecondary
    \/ CompareAndPrint

Spec == Init /\ [][Next]_vars

\* The line parser alone: parse_data's first loop on a one-line file, for
\* every line over Alphabet of up to MaxLineLen characters.
InitParse ==
    /\ primary_ns = DefaultPrimary
    /\ secondary_ns = "::1"
    /\ input_file \in {<<line>> : line \in SeqUpTo(Alphabet, MaxLineLen)}
    /\ file_ok = TRUE
    /\ quiet_mode = FALSE
    /\ pc = "parse"
    /\ exit_msg = ""
    /\ pos = 1
    /\ data = <<>>
    /\ li = 1 /\ ri = 1
    /\ resolver_nameservers = <<>>
    /\ queries = <<>>
    /\ last_outcome = ""
    /\ primary_response = <<>>
    /\ secondary_response = <<>>
    /\ result = NoResult
    /\ stdout = <<>>

NextParse ==
    \/ ParseLine
    \/ ParseDone

SpecParse == InitParse /\ [][NextParse]_vars

\* The comparator alone: the tail of parse_data's loop body on every pair
\* of result sequences over ResponseElems of up to MaxRespLen elements.
ResponseElems == {None, "", "A", "B"}

InitCompare ==
    /\ primary_ns = DefaultPrimary
    /\ secondary_ns = "::1"
    /\ input_file = << <<"d", " ", "A">> >>
    /\ file_ok = TRUE
    /\ quiet_mode \in BOOLEAN
    /\ pc = "compare"
    /\ exit_msg = ""
    /\ pos = 2
    /\ data = << [domain |-> <<"d">>, records |-> << <<"A">> >>] >>
    /\ li = 1 /\ ri = 1
    /\ resolver_nameservers = <<"::1">>
    /\ queries = <<>>
    /\ last_outcome = ""
    /\ primary_response \in SeqUpTo(ResponseElems, MaxRespLen)
    /\ secondary_response \in SeqUpTo(ResponseElems, MaxRespLen)
    /\ result = NoResult
    /\ stdout = <<>>

NextCompare == CompareAndPrint

SpecCompare == InitCompare /\ [][NextCompare]_vars

\* ================================================================ claims
\* ---- notions the claims are stated in
Terminated == pc \in {"exited", "crashed"}

\* The outcome a report block stands for.
Kind(r) ==
    CASE r.colour = "GREEN" -> "Success"
      [] r.colour = "YELLOW" -> "Warning"
      [] r.colour = "RED" -> "Error"
      [] OTHER -> "none"

HasNone(r) == \E i \in 1..Len(r) : r[i] = None
SameSequence(p, s) == Len(p) = Len(s) /\ \A i \in 1..Len(p) : p[i] = s[i]

\* First match wins: Warning, then Success, then Error.
Classification(p, s) ==
    IF HasNone(p) \/ HasNone(s) THEN "Warning"
    ELSE IF SameSequence(p, s) THEN "Success"
    ELSE "Error"

HasSpace(l) == \E i \in 1..Len(l) : l[i] = SPACE
FirstSpace(l) == CHOOSE i \in 1..Len(l) : l[i] = SPACE /\ \A j \in 1..(i - 1) : l[j] # SPACE
BeforeFirstSpace(l) == SubSeq(l, 1, FirstSpace(l) - 1)
AfterFirstSpace(l) == SubSeq(l, FirstSpace(l) + 1, Len(l))
\* The text between the first blank and the second (or the end of the line).
SecondField(l) ==
    LET rest == AfterFirstSpace(l)
    IN  IF HasSpace(rest) THEN BeforeFirstSpace(rest) ELSE rest

\* A retained line with no space-separated second field.
Malformed(line) == retained(strip(line)) /\ ~HasSpace(strip(line))

RECURSIVE ParsedFile(_)
\* The retained lines of a file, parsed, in file order.
ParsedFile(f) ==
    IF f = <<>> THEN <<>>
    ELSE IF retained(strip(Head(f)))
         THEN <<[domain |-> BeforeFirstSpace(strip(Head(f))),
                 records |-> split(SecondField(strip(Head(f))), COMMA)]>>
              \o ParsedFile(Tail(f))
         ELSE ParsedFile(Tail(f))

RECURSIVE PairsOf(_)
\* The (domain, record type) pairs of parsed lines: line order, then
\* record-type order within a line.
PairsOf(d) ==
    IF d = <<>> THEN <<>>
    ELSE [r \in 1..Len(d[1].records) |-> <<d[1].domain, d[1].records[r]>>]
         \o PairsOf(Tail(d))

RECURSIVE IsSubseq(_, _)
IsSubseq(s, t) ==
    \/ s = <<>>
    \/ /\ t # <<>>
       /\ IF Head(s) = Head(t) THEN IsSubseq(Tail(s), Tail(t))
                               ELSE IsSubseq(s, Tail(t))

\* The pairs whose loop body has run to its end.
Completed ==
    IF Terminated /\ queries # <<>> THEN (Len(queries) - 1) \div 2
    ELSE IF pc = "compare" THEN (Len(queries) \div 2) - 1
    ELSE Len(queries) \div 2

Labels(out) == [j \in 1..Len(out) |-> <<out[j].domain, out[j].record_type>>]

\* The loop body has just run to its end: result, primary_response and
\* secondary_response are those of one pair.
JustCompared == pc \in {"query_primary", "done"} /\ result # NoResult

\* ---- C1
\* C1: a query that times out does not end the run: dns_query returns
\* [None] and the run goes on to the next query (or to the comparison).
C1_TimeoutNonFatal ==
    last_outcome = "Timeout" =>
        /\ ~Terminated
        /\ pc = "query_secondary" => primary_response = <<None>>
        /\ pc = "compare" => secondary_response = <<None>>

\* ---- C2
\* C2: the block of a compared pair is printed unless the outcome is
\* Success and quiet mode is on; a Warning or Error block is printed in
\* quiet mode with the text it has without quiet mode.
C2_QuietFilter ==
    pc = "done" =>
        LET kind == Classification(primary_response, secondary_response)
            block == [colour |-> CASE kind = "Warning" -> "YELLOW"
                                   [] kind = "Success" -> "GREEN"
                                   [] OTHER -> "RED",
                      headline |-> CASE kind = "Warning" -> "Warning!"
                                     [] kind = "Success" -> "Success!"
                                     [] OTHER -> "Error!",
                      domain |-> data[1].domain,
                      record_type |-> data[1].records[1],
                      sections |-> IF kind = "Success"
                                   THEN <<JoinLines(primary_response)>>
                                   ELSE <<JoinLines(primary_response),
                                          JoinLines(secondary_response)>>]
        IN  stdout = IF quiet_mode /\ kind = "Success" THEN <<>> ELSE <<block>>

\* A Warning printed in quiet mode.
C2_Witness ==
    /\ pc = "done" /\ quiet_mode
    /\ Len(stdout) = 1 /\ stdout[1].colour = "YELLOW"

\* ---- C3
\* C3: with a malformed line anywhere in the file, the run makes no query
\* and prints no report: it never gets past parsing.
C3_ParseBeforeQuery ==
    (\E i \in 1..Len(input_file) : Malformed(input_file[i])) =>
        /\ queries = <<>>
        /\ stdout = <<>>
        /\ pc \in {"validate", "parse", "exited"}
        /\ pc = "exited" /\ exit_msg \notin ValidateMsgs => exit_msg = MsgParse

\* The malformed line is the second line, after a line that parsed.
C3_Witness ==
    /\ pc = "exited" /\ exit_msg = MsgParse
    /\ pos = 3 /\ Len(data) = 1
    /\ Malformed(input_file[2])

\* ---- C4
\* C4: the queries made are, in order, those of the pairs in file line order
\* and record-type order, one to the primary then one to the secondary per
\* pair; a pair's report comes before the next pair's first query.
C4_InputOrder ==
    LET pairs == PairsOf(data) IN
    /\ pc \notin {"validate", "parse", "exited"} => data = ParsedFile(input_file)
    /\ Len(queries) <= 2 * Len(pairs)
    /\ \A k \in 1..Len(queries) :
          /\ queries[k].domain = pairs[(k + 1) \div 2][1]
          /\ queries[k].record_type = pairs[(k + 1) \div 2][2]
          /\ queries[k].role = IF k % 2 = 1 THEN "primary" ELSE "secondary"
          /\ queries[k].nameserver = IF k % 2 = 1 THEN primary_ns ELSE secondary_ns
    /\ pc = "query_primary" =>
          /\ Len(queries) % 2 = 0
          /\ <<domain, record_type>> = pairs[Len(queries) \div 2 + 1]
    /\ pc = "query_secondary" => Len(queries) % 2 = 1
    /\ pc = "compare" => Len(queries) % 2 = 0 /\ Len(queries) > 0
    /\ pc = "done" => Len(queries) = 2 * Len(pairs)
    /\ ~quiet_mode => Labels(stdout) = SubSeq(pairs, 1, Completed)
    /\ quiet_mode => IsSubseq(Labels(stdout), SubSeq(pairs, 1, Completed))

\* A file of two retained lines, the first with two record types, run to
\* its end.
C4_Witness ==
    /\ pc = "done" /\ ~quiet_mode
    /\ Len(data) = 2 /\ Len(data[1].records) = 2
    /\ Len(queries) = 6 /\ Len(stdout) = 3

\* ---- C5
\* C5: the block compare_dns_response returns is a Warning if either
\* sequence holds None, else a Success iff the sequences are equal element
\* by element (same length, same order), else an Error.
C5_Classification ==
    pc = "done" =>
        /\ Kind(result) = Classification(primary_response, secondary_response)
        /\ result.headline = CASE Kind(result) = "Warning" -> "Warning!"
                               [] Kind(result) = "Success" -> "Success!"
                               [] OTHER -> "Error!"

\* Same elements, different multiplicities: an Error.
C5_Witness ==
    /\ pc = "done"
    /\ primary_response = <<"A", "A", "B">>
    /\ secondary_response = <<"A", "B">>
    /\ Kind(result) = "Error"

\* ---- C6
\* C6: a query that meets an unknown record type or a meta type ends the
\* process: it is the last query made (a primary one, so the pair's
\* secondary query is not made) and no report follows it.
C6_FatalStops ==
    last_outcome \in {"UnknownRdatatype", "NoMetaqueries"} =>
        /\ pc = "exited"
        /\ exit_msg = (IF last_outcome = "NoMetaqueries"
                       THEN "You used an invalid query type."
                       ELSE "contains invalid DNS record type")
        /\ queries[Len(queries)].role = "primary"
        /\ queries[Len(queries)].record_type \notin {<<"A">>, <<"M", "X">>}
        /\ Len(stdout) <= (Len(queries) - 1) \div 2

\* The unknown type is met after one pair was compared and reported.
C6_Witness ==
    /\ pc = "exited" /\ last_outcome = "UnknownRdatatype"
    /\ Len(queries) = 3 /\ Len(stdout) = 1

\* ---- C7
\* C7: with an invalid primary or secondary address or an unreadable file,
\* validate ends the process with the message of the first failing check,
\* before any line is parsed and any query made; otherwise it prints
\* nothing and parsing starts.
C7_ValidateFailsFast ==
    LET badP == primary_ns \notin ValidAddresses
        badS == secondary_ns \notin ValidAddresses
        badF == ~file_ok
    IN  /\ (badP \/ badS \/ badF) =>
              /\ pc \in {"validate", "exited"}
              /\ pos = 1 /\ data = <<>> /\ queries = <<>> /\ stdout = <<>>
              /\ pc = "exited" =>
                    exit_msg = IF badP THEN MsgPrimary
                               ELSE IF badS THEN MsgSecondary ELSE MsgFile
        /\ ~(badP \/ badS \/ badF) =>
              /\ exit_msg \notin ValidateMsgs
              /\ pc = "parse" /\ pos = 1 => stdout = <<>> /\ data = <<>>

\* The primary address is valid and the secondary is not.
C7_Witness ==
    /\ pc = "exited" /\ exit_msg = MsgSecondary
    /\ primary_ns \in ValidAddresses /\ file_ok

\* ---- C8
\* C8 as claimed: for a retained line with a space, the domain is the text
\* before the first space and the record types are the comma-split of
\* everything after the first space.
C8_SplitOnFirstSpace ==
    LET l == strip(input_file[1]) IN
    pos = 2 /\ retained(l) /\ HasSpace(l) =>
        /\ pc # "exited"
        /\ Len(data) = 1
        /\ data[1].domain = BeforeFirstSpace(l)
        /\ data[1].records = split(AfterFirstSpace(l), COMMA)

\* C8 as amended: the record types are the comma-split of the text between
\* the first space and the second (the end of the line when there is no
\* second space); what follows a second space is ignored.
C8_SplitSecondField ==
    LET l == strip(input_file[1]) IN
    pos = 2 /\ retained(l) /\ HasSpace(l) =>
        /\ pc # "exited"
        /\ Len(data) = 1
        /\ data[1].domain = BeforeFirstSpace(l)
        /\ data[1].records = split(SecondField(l), COMMA)

\* A line with two spaces: the third field is dropped.
C8_Witness ==
    /\ pos = 2
    /\ input_file[1] = <<"d", " ", "A", " ", "A">>
    /\ data = <<[domain |-> <<"d">>, records |-> << <<"A">> >>]>>

\* ---- C9
\* C9: a query ending in NoAnswer or NoNameservers does not end the run and
\* returns the one-element list holding the '' placeholder; two such
\* responses compare as a Success (not printed in quiet mode), one of them
\* against records compares as an Error, and it never makes a Warning.
C9_EmptyAnswer ==
    /\ last_outcome \in {"NoAnswer", "NoNameservers"} =>
          /\ ~Terminated
          /\ pc = "query_secondary" => primary_response = <<"''">>
          /\ pc # "query_secondary" => secondary_response = <<"''">>
    /\ JustCompared =>
          /\ primary_response = <<"''">> /\ secondary_response = <<"''">>
                => Kind(result) = "Success"
          /\ (primary_response = <<"''">>) # (secondary_response = <<"''">>)
             /\ ~HasNone(primary_response) /\ ~HasNone(secondary_response)
                => Kind(result) = "Error"
          /\ (primary_response = <<"''">> \/ secondary_response = <<"''">>)
             /\ ~HasNone(primary_response) /\ ~HasNone(secondary_response)
                => Kind(result) # "Warning"
          /\ ~quiet_mode => stdout # <<>> /\ stdout[Len(stdout)] = result
    /\ quiet_mode => \A j \in 1..Len(stdout) : Kind(stdout[j]) # "Success"

\* Both nameservers gave no answer: a Success, kept quiet.
C9_Witness ==
    /\ JustCompared /\ quiet_mode
    /\ last_outcome = "NoNameservers"
    /\ primary_response = <<"''">> /\ secondary_response = <<"''">>
    /\ Kind(result) = "Success" /\ stdout = <<>>

\* ---- C10
\* C10: every query was made with resolver.nameservers holding exactly the
\* address given to that dns_query call: the primary address for the
\* primary response, the secondary address for the secondary response.
C10_SingleTarget ==
    /\ Len(resolver_nameservers) <= 1
    /\ \A k \in 1..Len(queries) :
          /\ queries[k].target = <<queries[k].nameserver>>
          /\ queries[k].role = "primary" => queries[k].target = <<primary_ns>>
          /\ queries[k].role = "secondary" => queries[k].target = <<secondary_ns>>

\* The target is back on the primary for the second pair.
C10_Witness ==
    /\ Len(queries) >= 3
    /\ queries[2].target = <<secondary_ns>>
    /\ queries[3].target = <<primary_ns>>
    /\ primary_ns # secondary_ns

====
